---- MODULE Spec2Model ----
(***************************************************************************)
(* clikeys: hierarchical KEY=VALUE overrides for nested config structs.    *)
(*                                                                         *)
(* Strings are sequences of one-character strings, so that splitting,      *)
(* prefixing and lexical comparison are computed as the code computes      *)
(* them.  A config type is a sequence of field declarations; the code the  *)
(* derive macro generates for a type is modelled by interpreting the       *)
(* declarations in declaration order.  Of the nine leaf types the derive    *)
(* accepts, the config types below use i32, bool and String; parse_str and *)
(* to_string are defined for these three.                                  *)
(***************************************************************************)
EXTENDS Integers, Sequences, FiniteSets, TLC

----------------------------------------------------------------------------
(* Strings *)

None == [some |-> FALSE]

Some(v) == [some |-> TRUE, val |-> v]

Digits == <<"0", "1", "2", "3", "4", "5", "6", "7", "8", "9">>

\* Byte value of the characters the model uses (str comparison is bytewise).
CharCode(c) ==
    CASE c = " " -> 32
      [] c = "+" -> 43
      [] c = "-" -> 45
      [] c = "." -> 46
      [] c \in {Digits[i] : i \in 1..10} -> 47 + (CHOOSE i \in 1..10 : Digits[i] = c)
      [] c = "=" -> 61
      [] c = "_" -> 95
      [] c = "a" -> 97
      [] c = "b" -> 98
      [] c = "d" -> 100
      [] c = "e" -> 101
      [] c = "f" -> 102
      [] c = "h" -> 104
      [] c = "i" -> 105
      [] c = "l" -> 108
      [] c = "n" -> 110
      [] c = "o" -> 111
      [] c = "q" -> 113
      [] c = "r" -> 114
      [] c = "s" -> 115
      [] c = "t" -> 116
      [] c = "u" -> 117
      [] c = "x" -> 120
      [] c = "z" -> 122

\* Ord::cmp on str: -1, 0 or 1.
RECURSIVE StrCmp(_, _)
StrCmp(a, b) ==
    IF a = <<>> /\ b = <<>> THEN 0
    ELSE IF a = <<>> THEN -1
    ELSE IF b = <<>> THEN 1
    ELSE IF CharCode(Head(a)) < CharCode(Head(b)) THEN -1
    ELSE IF CharCode(Head(a)) > CharCode(Head(b)) THEN 1
    ELSE StrCmp(Tail(a), Tail(b))

\* str::find: the index of the first occurrence of delim, 0 when absent.
RECURSIVE FindFrom(_, _, _)
FindFrom(s, delim, i) ==
    IF i > Len(s) THEN 0
    ELSE IF s[i] = delim THEN i
    ELSE FindFrom(s, delim, i + 1)

\* Mutant of split_once: splits at the last occurrence of delim.
split_once_last(s, delim) ==
    IF \A k \in 1..Len(s) : s[k] # delim THEN None
    ELSE LET idx == CHOOSE k \in 1..Len(s) :
                        s[k] = delim /\ \A j \in (k + 1)..Len(s) : s[j] # delim
         IN Some([seg |-> SubSeq(s, 1, idx - 1), rest |-> SubSeq(s, idx + 1, Len(s))])

split_once(s, delim) ==
    LET idx == FindFrom(s, delim, 1) IN
    IF idx = 0 THEN None
    ELSE Some([seg |-> SubSeq(s, 1, idx - 1), rest |-> SubSeq(s, idx + 1, Len(s))])

----------------------------------------------------------------------------
(* Leaf registry: ParseFromStr and to_string *)

I32MaxDiv10 == 214748364

I32MaxMod10 == 7

MsgEmpty == "cannot parse integer from empty string"

MsgInvalidDigit == "invalid digit found in string"

MsgPosOverflow == "number too large to fit in target type"

MsgNegOverflow == "number too small to fit in target type"

MsgBool == "provided string was not true or false"

IsDigit(c) == \E i \in 1..10 : Digits[i] = c

DigitVal(c) == (CHOOSE i \in 1..10 : Digits[i] = c) - 1

\* Accumulates the digits of s onto acc, the sign being sgn (1 or -1).
RECURSIVE ParseDigits(_, _, _)
ParseDigits(s, acc, sgn) ==
    IF s = <<>> THEN [ok |-> TRUE, val |-> acc]
    ELSE IF ~IsDigit(Head(s)) THEN [ok |-> FALSE, msg |-> MsgInvalidDigit]
    ELSE LET d == DigitVal(Head(s)) IN
         IF sgn = 1
         THEN IF acc > I32MaxDiv10 \/ (acc = I32MaxDiv10 /\ d > I32MaxMod10)
              THEN [ok |-> FALSE, msg |-> MsgPosOverflow]
              ELSE ParseDigits(Tail(s), acc * 10 + d, sgn)
         ELSE IF acc < -I32MaxDiv10 \/ (acc = -I32MaxDiv10 /\ d > I32MaxMod10 + 1)
              THEN [ok |-> FALSE, msg |-> MsgNegOverflow]
              ELSE ParseDigits(Tail(s), acc * 10 - d, sgn)

\* <i32 as FromStr>::from_str
ParseI32(s) ==
    IF s = <<>> THEN [ok |-> FALSE, msg |-> MsgEmpty]
    ELSE IF Len(s) = 1 /\ Head(s) \in {"+", "-"} THEN [ok |-> FALSE, msg |-> MsgInvalidDigit]
    ELSE IF Head(s) = "+" THEN ParseDigits(Tail(s), 0, 1)
    ELSE IF Head(s) = "-" THEN ParseDigits(Tail(s), 0, -1)
    ELSE ParseDigits(s, 0, 1)

\* <bool as FromStr>::from_str
ParseBool(s) ==
    IF s = <<"t", "r", "u", "e">> THEN [ok |-> TRUE, val |-> TRUE]
    ELSE IF s = <<"f", "a", "l", "s", "e">> THEN [ok |-> TRUE, val |-> FALSE]
    ELSE [ok |-> FALSE, msg |-> MsgBool]

parse_str(ty, s) ==
    CASE ty = "i32" -> ParseI32(s)
      [] ty = "bool" -> ParseBool(s)
      [] ty = "String" -> [ok |-> TRUE, val |-> s]

RECURSIVE NatToStr(_)
NatToStr(n) ==
    IF n < 10 THEN <<Digits[n + 1]>>
    ELSE NatToStr(n \div 10) \o <<Digits[(n % 10) + 1]>>

\* Display::to_string of a leaf value of type ty.
to_string(ty, v) ==
    CASE ty = "i32" -> IF v < 0 THEN <<"-">> \o NatToStr(-v) ELSE NatToStr(v)
      [] ty = "bool" -> IF v THEN <<"t", "r", "u", "e">> ELSE <<"f", "a", "l", "s", "e">>
      [] ty = "String" -> v

----------------------------------------------------------------------------
(* Field classifier *)

NoAttr == [rename |-> None, help |-> None, ns |-> None, skip |-> FALSE]

\* The FieldAttr of a field: later attributes overwrite earlier ones; a bare
\* `ns` (no value) names the field itself.
RECURSIVE parse_attrs(_, _)
parse_attrs(attrs, field_name) ==
    IF attrs = <<>> THEN NoAttr
    ELSE LET out == parse_attrs(SubSeq(attrs, 1, Len(attrs) - 1), field_name)
             a == attrs[Len(attrs)]
         IN CASE a.name = "rename" -> [out EXCEPT !.rename = Some(a.val.val)]
              [] a.name = "help" -> [out EXCEPT !.help = Some(a.val.val)]
              [] a.name = "ns" -> [out EXCEPT !.ns = IF a.val.some THEN Some(a.val.val)
                                                     ELSE Some(field_name)]
              [] a.name = "skip" -> [out EXCEPT !.skip = TRUE]

LeafTypes == {"bool", "usize", "u32", "u64", "i32", "i64", "f32", "f64", "String"}

is_leaf_type(ty) == IF ty \in LeafTypes THEN Some(ty) ELSE None

unwrap_or(opt, dflt) == IF opt.some THEN opt.val ELSE dflt

\* let field_key = rename.unwrap_or_else(|| ident.to_string());
field_key(f) == unwrap_or(parse_attrs(f.attrs, f.ident).rename, f.ident)

\* let ns_str = ns.unwrap_or_else(|| field_key.clone());
ns_str(f) == unwrap_or(parse_attrs(f.attrs, f.ident).ns, field_key(f))

help_lit(f) == unwrap_or(parse_attrs(f.attrs, f.ident).help, <<>>)

\* Mutant of skip: the skip annotation is not honoured.
skip_never(f) == FALSE

skip(f) == parse_attrs(f.attrs, f.ident).skip

----------------------------------------------------------------------------
(* Namespace capability: the code generated for a config type T of the     *)
(* type table tt.  An instance of T is a function from field positions to  *)
(* leaf values or nested instances.                                        *)

\* <T as Default>::default()
RECURSIVE Default(_, _)
Default(tt, T) ==
    [i \in 1..Len(tt[T]) |->
        IF is_leaf_type(tt[T][i].ty).some THEN tt[T][i].default
        ELSE Default(tt, tt[T][i].ty)]

Ok == [kind |-> "Ok"]

UnknownKey(key) == [kind |-> "UnknownKey", key |-> key]

ParseError(key, value, msg) ==
    [kind |-> "ParseError", key |-> key, value |-> value, msg |-> msg]

\* Mutant of leaf_arm: the field is reset before the value is parsed, so a
\* parse failure leaves it cleared.
leaf_arm_reset_first(self, i, f, key, value) ==
    LET parsed == parse_str(f.ty, value)
        zero == CASE f.ty = "i32" -> 0 [] f.ty = "bool" -> FALSE [] f.ty = "String" -> <<>>
    IN IF parsed.ok
       THEN [res |-> Ok, self |-> [self EXCEPT ![i] = parsed.val], calls |-> <<>>,
             hit |-> <<i>>]
       ELSE [res |-> ParseError(key, value, parsed.msg),
             self |-> [self EXCEPT ![i] = zero], calls |-> <<>>, hit |-> <<>>]

\* The arm generated for the leaf field f at position i, once key == #key_lit:
\* parse, and only then assign.
leaf_arm(self, i, f, key, value) ==
    LET parsed == parse_str(f.ty, value) IN
    IF parsed.ok
    THEN [res |-> Ok, self |-> [self EXCEPT ![i] = parsed.val], calls |-> <<>>,
          hit |-> <<i>>]
    ELSE [res |-> ParseError(key, value, parsed.msg), self |-> self, calls |-> <<>>,
          hit |-> <<>>]

\* Mutant of ns_matches: any dotted key is delegated, whatever its first segment.
ns_matches_any(f, sp) == sp.some

\* if let Some((seg, rest)) = split_once(key, '.') { if seg == #ns_lit { .. } }
ns_matches(f, sp) == sp.some /\ sp.val.seg = ns_str(f)

\* return apply_kv(&mut self.#ident, rest, value): the nested result r seen
\* from the parent whose field i it is.
Delegated(self, i, r) ==
    [res |-> r.res, self |-> [self EXCEPT ![i] = r.self], calls |-> r.calls,
     hit |-> IF r.hit = <<>> THEN <<>> ELSE <<i>> \o r.hit]

Called(T, key, value, r) ==
    [res |-> r.res, self |-> r.self,
     calls |-> <<[ty |-> T, key |-> key, value |-> value]>> \o r.calls,
     hit |-> r.hit]

\* The statements generated for fields i.. of T, then the UnknownKey
\* fallthrough.  Result: res, the instance afterwards (self), the apply_kv
\* invocations made in order (calls) and the position path of the leaf
\* assigned (hit, empty when none was).
RECURSIVE apply_stmts(_, _, _, _, _, _)
RECURSIVE apply_kv(_, _, _, _, _)
apply_stmts(tt, T, self, key, value, i) ==
    IF i > Len(tt[T])
    THEN [res |-> UnknownKey(key), self |-> self, calls |-> <<>>, hit |-> <<>>]
    ELSE IF skip(tt[T][i]) THEN apply_stmts(tt, T, self, key, value, i + 1)
    ELSE IF is_leaf_type(tt[T][i].ty).some
    THEN IF key = field_key(tt[T][i])
         THEN leaf_arm(self, i, tt[T][i], key, value)
         ELSE apply_stmts(tt, T, self, key, value, i + 1)
    ELSE IF ns_matches(tt[T][i], split_once(key, "."))
         THEN Delegated(self, i,
                  apply_kv(tt, tt[T][i].ty, self[i], split_once(key, ".").val.rest, value))
         ELSE apply_stmts(tt, T, self, key, value, i + 1)

apply_kv(tt, T, self, key, value) ==
    Called(T, key, value, apply_stmts(tt, T, self, key, value, 1))

\* Prefix all keys in meta with `prefix.`.
prefix_meta(prefix, meta) ==
    IF prefix = <<>> THEN meta
    ELSE [j \in 1..Len(meta) |-> [meta[j] EXCEPT !.key = prefix \o <<".">> \o @]]

RECURSIVE meta_stmts(_, _, _)
RECURSIVE options_meta(_, _)
meta_stmts(tt, T, i) ==
    IF i > Len(tt[T]) THEN <<>>
    ELSE LET f == tt[T][i] IN
         IF skip(f) THEN meta_stmts(tt, T, i + 1)
         ELSE IF is_leaf_type(f.ty).some
         THEN <<[key |-> field_key(f), ty |-> f.ty, help |-> help_lit(f),
                 default |-> to_string(f.ty, Default(tt, T)[i])]>>
              \o meta_stmts(tt, T, i + 1)
         ELSE prefix_meta(ns_str(f), options_meta(tt, f.ty))
              \o meta_stmts(tt, T, i + 1)

options_meta(tt, T) == meta_stmts(tt, T, 1)

----------------------------------------------------------------------------
(* Override builder *)

MsgExpected == "expected KEY=VALUE"

\* Mutant of new_with_options_loop: the result of apply_kv is dropped, so the
\* loop goes on after a failing option.
RECURSIVE new_with_options_loop_unchecked(_, _, _, _, _, _, _)
new_with_options_loop_unchecked(tt, T, cfg, options, i, split, applied) ==
    IF i > Len(options)
    THEN [res |-> Ok, cfg |-> Some(cfg), split |-> split, applied |-> applied]
    ELSE IF ~split_once(options[i], "=").some
    THEN [res |-> ParseError(options[i], <<>>, MsgExpected), cfg |-> None,
          split |-> Append(split, i), applied |-> applied]
    ELSE new_with_options_loop_unchecked(tt, T,
             apply_kv(tt, T, cfg, split_once(options[i], "=").val.seg,
                      split_once(options[i], "=").val.rest).self,
             options, i + 1, Append(split, i),
             Append(applied, [key |-> split_once(options[i], "=").val.seg,
                              value |-> split_once(options[i], "=").val.rest]))

\* The `for opt in options` loop from option i on, cfg being the config so
\* far.  split and applied record, in order, the positions of the options
\* handed to split_once and the (key, value) pairs handed to apply_kv.
RECURSIVE new_with_options_loop(_, _, _, _, _, _, _)
new_with_options_loop(tt, T, cfg, options, i, split, applied) ==
    IF i > Len(options)
    THEN [res |-> Ok, cfg |-> Some(cfg), split |-> split, applied |-> applied]
    ELSE LET opt == options[i]
             kv == split_once(opt, "=")
         IN IF ~kv.some
            THEN [res |-> ParseError(opt, <<>>, MsgExpected), cfg |-> None,
                  split |-> Append(split, i), applied |-> applied]
            ELSE LET r == apply_kv(tt, T, cfg, kv.val.seg, kv.val.rest) IN
                 IF r.res.kind # "Ok"
                 THEN [res |-> r.res, cfg |-> None, split |-> Append(split, i),
                       applied |-> Append(applied, [key |-> kv.val.seg, value |-> kv.val.rest])]
                 ELSE new_with_options_loop(tt, T, r.self, options, i + 1,
                          Append(split, i),
                          Append(applied, [key |-> kv.val.seg, value |-> kv.val.rest]))

\* Mutant of new_with_options: the first option is never applied.
new_with_options_from_second(tt, T, options) ==
    new_with_options_loop(tt, T, Default(tt, T), options, 2, <<>>, <<>>)

new_with_options(tt, T, options) ==
    new_with_options_loop(tt, T, Default(tt, T), options, 1, <<>>, <<>>)

----------------------------------------------------------------------------
(* Metadata formatter.  A line is a sequence of tokens: the characters of  *)
(* the interpolated strings and the literal fragments of the format.       *)

KeyWidth == 28

DefaultWidth == 10

Header == <<"Options (set with -o/--option KEY=VALUE; repeatable):">>

\* m.key.split('.').next().unwrap_or(&m.key)
GroupOf(key) ==
    LET idx == FindFrom(key, ".", 1) IN
    IF idx = 0 THEN key ELSE SubSeq(key, 1, idx - 1)

\* into_group_map_by: the entries of each group, in input order.
GroupItems(options, g) == SelectSeq(options, LAMBDA m : GroupOf(m.key) = g)

StrMin(S) == CHOOSE a \in S : \A b \in S : StrCmp(a, b) <= 0

\* groups.sort()
RECURSIVE SortGroups(_)
SortGroups(S) ==
    IF S = {} THEN <<>>
    ELSE <<StrMin(S)>> \o SortGroups(S \ {StrMin(S)})

\* Stable insertion of m into items sorted by key.
RECURSIVE InsertByKey(_, _)
InsertByKey(items, m) ==
    IF items = <<>> THEN <<m>>
    ELSE IF StrCmp(m.key, Head(items).key) < 0 THEN <<m>> \o items
    ELSE <<Head(items)>> \o InsertByKey(Tail(items), m)

\* Mutant of SortByKey: the items stay in input order.
SortByKey_unsorted(items) == items

\* items.sort_by(|a, b| a.key.cmp(&b.key)), a stable sort.
RECURSIVE SortByKey(_)
SortByKey(items) ==
    IF items = <<>> THEN <<>>
    ELSE InsertByKey(SortByKey(SubSeq(items, 1, Len(items) - 1)), items[Len(items)])

\* {:<w}
PadRight(str, w) ==
    IF Len(str) >= w THEN str ELSE str \o [j \in 1..(w - Len(str)) |-> " "]

\* format!("\n{}.*", g)
FormatGroup(g) == <<"\n">> \o g \o <<".*">>

\* format!("  {:<28}  default = {:<10}  ({}) {}", key, m.default, ty, help)
FormatEntry(m) ==
    <<"  ">> \o PadRight(m.key, KeyWidth) \o <<"  default = ">>
    \o PadRight(m.default, DefaultWidth) \o <<"  (", m.ty, ") ">> \o m.help

RECURSIVE FormatItems(_)
FormatItems(items) ==
    IF items = <<>> THEN <<>>
    ELSE <<FormatEntry(Head(items))>> \o FormatItems(Tail(items))

RECURSIVE FormatGroups(_, _)
FormatGroups(options, groups) ==
    IF groups = <<>> THEN <<>>
    ELSE <<FormatGroup(Head(groups))>>
         \o FormatItems(SortByKey(GroupItems(options, Head(groups))))
         \o FormatGroups(options, Tail(groups))

\* lines.join("\n")
RECURSIVE Join(_)
Join(lines) ==
    IF lines = <<>> THEN <<>>
    ELSE IF Len(lines) = 1 THEN lines[1]
    ELSE lines[1] \o <<"\n">> \o Join(Tail(lines))

format_options_help(options) ==
    LET groups == SortGroups({GroupOf(options[j].key) : j \in 1..Len(options)}) IN
    Join(<<Header>> \o FormatGroups(options, groups))

----------------------------------------------------------------------------
(* Config types.  The base declarations are                                *)
(*   Config  { r: i32 = 3, b: Backend, #[clikey(skip)] d: i32 = 7 }        *)
(*   Backend { d: String = "", i: Inner }                                  *)
(*   Inner   { o: bool = false }                                           *)
(* and a schema is the base with the attributes of one field replaced.     *)

Rename(v) == [name |-> "rename", val |-> Some(v)]

Help(v) == [name |-> "help", val |-> Some(v)]

Ns(v) == [name |-> "ns", val |-> Some(v)]

NsBare == [name |-> "ns", val |-> None]

Skip == [name |-> "skip", val |-> None]

Base ==
    [Config |-> <<[ident |-> <<"r">>, attrs |-> <<Help(<<"h">>)>>, ty |-> "i32", default |-> 3],
                  [ident |-> <<"b">>, attrs |-> <<>>, ty |-> "Backend"],
                  [ident |-> <<"d">>, attrs |-> <<Skip>>, ty |-> "i32", default |-> 7]>>,
     Backend |-> <<[ident |-> <<"d">>, attrs |-> <<>>, ty |-> "String", default |-> <<>>],
                   [ident |-> <<"i">>, attrs |-> <<>>, ty |-> "Inner"]>>,
     Inner |-> <<[ident |-> <<"o">>, attrs |-> <<>>, ty |-> "bool", default |-> FALSE]>>]

Root == "Config"

Annotate(tt, T, i, attrs) == [tt EXCEPT ![T][i].attrs = attrs]

LeafSites == {<<"Config", 1>>, <<"Config", 3>>, <<"Backend", 1>>, <<"Inner", 1>>}

NsSites == {<<"Config", 2>>, <<"Backend", 2>>}

LeafVariants ==
    {<<Rename(<<"q">>)>>, <<Rename(<<"d">>)>>, <<Rename(<<"b", ".", "d">>)>>, <<Skip>>}

NsVariants ==
    {<<NsBare>>, <<Ns(<<"n">>)>>, <<Ns(<<>>)>>, <<Ns(<<"a", ".", "b">>)>>,
     <<Rename(<<"n">>)>>, <<Rename(<<"n">>), NsBare>>, <<Skip>>}

Schemas ==
    {Base}
    \cup {Annotate(Base, st[1], st[2], av) : st \in LeafSites, av \in LeafVariants}
    \cup {Annotate(Base, st[1], st[2], av) : st \in NsSites, av \in NsVariants}

Keys ==
    {<<>>, <<"r">>, <<"d">>, <<"q">>, <<"b">>,
     <<"b", ".", "d">>, <<"b", ".", "q">>, <<"b", ".">>,
     <<".", "d">>, <<"n", ".", "d">>, <<"a", ".", "b", ".", "d">>,
     <<"b", ".", "b", ".", "d">>, <<"b", ".", "o">>,
     <<"b", ".", "i", ".", "o">>, <<"b", ".", "i", ".", "q">>,
     <<"b", ".", "i", ".", "d">>, <<"b", ".", "n", ".", "o">>,
     <<"b", ".", ".", "o">>, <<"b", ".", "a", ".", "b", ".", "o">>}

Values == {<<"5">>, <<"t", "r", "u", "e">>, <<>>}

----------------------------------------------------------------------------
(* State *)

VARIABLES
    decl,   \* the type table of the program
    cfg,    \* the root config instance apply_kv mutates
    last,   \* the last apply_kv / options_meta call and what it returned
    built,  \* the last new_with_options call and what it returned
    help    \* the last format_options_help call and what it returned

vars == <<decl, cfg, last, built, help>>

NoCall == [op |-> "none"]

Init ==
    /\ decl \in Schemas
    /\ cfg = Default(decl, Root)
    /\ last = NoCall
    /\ built = NoCall
    /\ help = NoCall

\* cfg.apply_kv(key, value)
ApplyKv ==
    \E key \in Keys, value \in Values :
        \E r \in {apply_kv(decl, Root, cfg, key, value)} :
        /\ cfg' = r.self
        /\ last' = [op |-> "apply_kv", key |-> key, value |-> value, before |-> cfg,
                    res |-> r.res, calls |-> r.calls, hit |-> r.hit]
        /\ UNCHANGED <<decl, built, help>>

\* Config::options_meta()
OptionsMeta ==
    /\ last' = [op |-> "options_meta", meta |-> options_meta(decl, Root)]
    /\ UNCHANGED <<decl, cfg, built, help>>

Next == ApplyKv \/ OptionsMeta

Spec == Init /\ [][Next]_vars

----------------------------------------------------------------------------
(* Building a config from the command line: one new_with_options call per  *)
(* run.                                                                    *)

MaxOpts == 3

Options ==
    {<<"r", "=", "5">>, <<"r", "=", "8">>, <<"r", "=", "x">>, <<"r", "=">>, <<"r">>,
     <<>>, <<"=", "5">>, <<"q", "=", "5">>,
     <<"b", ".", "d", "=", "x", "=">>, <<"b", ".", "d", "=">>,
     <<"b", ".", "i", ".", "o", "=", "t", "r", "u", "e">>,
     <<"b", ".", "q", "=", "5">>}

SeqsUpTo(S, n) == UNION {[1..k -> S] : k \in 0..n}

BuildSchemas ==
    {Base,
     Annotate(Base, "Config", 1, <<Rename(<<"b", ".", "d">>)>>),
     Annotate(Base, "Config", 3, <<Rename(<<"q">>)>>)}

InitBuild ==
    /\ decl \in BuildSchemas
    /\ cfg = Default(decl, Root)
    /\ last = NoCall
    /\ built = NoCall
    /\ help = NoCall

\* Config::new_with_options(options)
NewWithOptions ==
    /\ built = NoCall
    /\ \E options \in SeqsUpTo(Options, MaxOpts) :
        \E r \in {new_with_options(decl, Root, options)} :
        built' = [op |-> "new_with_options", options |-> options, res |-> r.res,
                  cfg |-> r.cfg, split |-> r.split, applied |-> r.applied]
    /\ UNCHANGED <<decl, cfg, last, help>>

NextBuild == NewWithOptions

SpecBuild == InitBuild /\ [][NextBuild]_vars

----------------------------------------------------------------------------
(* Rendering help: one format_options_help / options_help call per run.    *)

MaxMeta == 3

Meta(key, ty, hlp, dflt) == [key |-> key, ty |-> ty, help |-> hlp, default |-> dflt]

MetaPool ==
    {Meta(<<"z", ".", "a">>, "i32", <<>>, <<"1">>),
     Meta(<<"a", ".", "b">>, "i32", <<"h">>, <<"2">>),
     Meta(<<"a", ".", "a">>, "bool", <<>>, <<"t", "r", "u", "e">>),
     Meta(<<"a", ".", "a">>, "i32", <<>>, <<"5">>),
     Meta(<<"a">>, "String", <<>>, <<>>),
     Meta(<<"t">>, "i32", <<"h">>, <<"3">>),
     Meta(<<>>, "i32", <<>>, <<"0">>),
     Meta(<<".", "x">>, "bool", <<>>, <<"f", "a", "l", "s", "e">>)}

HelpSchemas ==
    {Base,
     Annotate(Base, "Config", 2, <<Ns(<<>>)>>),
     Annotate(Base, "Backend", 1, <<Rename(<<"b", ".", "d">>)>>),
     Annotate(Base, "Config", 3, <<Rename(<<"a">>)>>)}

InitHelp ==
    /\ decl \in HelpSchemas
    /\ cfg = Default(decl, Root)
    /\ last = NoCall
    /\ built = NoCall
    /\ help = NoCall

\* format_options_help(options)
FormatOptionsHelp ==
    /\ help = NoCall
    /\ \E options \in SeqsUpTo(MetaPool, MaxMeta) :
        help' = [op |-> "format_options_help", options |-> options,
                 text |-> format_options_help(options)]
    /\ UNCHANGED <<decl, cfg, last, built>>

\* Config::options_help()
OptionsHelp ==
    /\ help = NoCall
    /\ help' = [op |-> "options_help", options |-> options_meta(decl, Root),
                text |-> format_options_help(options_meta(decl, Root))]
    /\ UNCHANGED <<decl, cfg, last, built>>

NextHelp == FormatOptionsHelp \/ OptionsHelp

SpecHelp == InitHelp /\ [][NextHelp]_vars

----------------------------------------------------------------------------
(* Vocabulary of the properties: leaves are addressed by position paths.   *)

\* The position paths of all leaves of T, skipped ones included.
RECURSIVE LeafPaths(_, _)
LeafPaths(tt, T) ==
    UNION {IF is_leaf_type(tt[T][i].ty).some THEN {<<i>>}
           ELSE {<<i>> \o p : p \in LeafPaths(tt, tt[T][i].ty)} : i \in 1..Len(tt[T])}

RECURSIVE Get(_, _)
Get(inst, p) == IF Len(p) = 1 THEN inst[p[1]] ELSE Get(inst[p[1]], Tail(p))

RECURSIVE Put(_, _, _)
Put(inst, p, v) ==
    IF Len(p) = 1 THEN [inst EXCEPT ![p[1]] = v]
    ELSE [inst EXCEPT ![p[1]] = Put(inst[p[1]], Tail(p), v)]

\* The declaration of the field a path ends at.
RECURSIVE FieldAt(_, _, _)
FieldAt(tt, T, p) ==
    IF Len(p) = 1 THEN tt[T][p[1]] ELSE FieldAt(tt, tt[T][p[1]].ty, Tail(p))

\* Whether a field declaration carries the skip annotation.
IsSkipped(f) == \E k \in 1..Len(f.attrs) : f.attrs[k].name = "skip"

\* Whether some field along the path is annotated skip.
RECURSIVE SkippedOn(_, _, _)
SkippedOn(tt, T, p) ==
    \/ IsSkipped(tt[T][p[1]])
    \/ Len(p) > 1 /\ SkippedOn(tt, tt[T][p[1]].ty, Tail(p))

\* The dotted path of a leaf: the namespace names down to it, then its key.
RECURSIVE QualKey(_, _, _)
QualKey(tt, T, p) ==
    IF Len(p) = 1 THEN field_key(tt[T][p[1]])
    ELSE ns_str(tt[T][p[1]]) \o <<".">> \o QualKey(tt, tt[T][p[1]].ty, Tail(p))

IsPrefix(a, b) == Len(a) <= Len(b) /\ SubSeq(b, 1, Len(a)) = a

Applied == last.op = "apply_kv"

Failed == Applied /\ last.res.kind # "Ok"

----------------------------------------------------------------------------
(* Properties of apply_kv and options_meta (specification Spec)            *)

\* C4: every error apply_kv returns on the root carries the fully qualified
\* key it was called with, also when resolution fails in a nested namespace.
C4_ErrorCarriesFullKey == Failed => last.res.key = last.key

\* C5: when apply_kv returns an error, every leaf at every depth holds the
\* value it had before the call.
C5_ErrorLeavesConfigUnchanged ==
    Failed => \A p \in LeafPaths(decl, Root) : Get(cfg, p) = Get(last.before, p)

\* A parse failure two namespaces down, on a config earlier calls had changed.
C5_Witness ==
    /\ Failed
    /\ last.res.kind = "ParseError"
    /\ Len(last.calls) > 2
    /\ last.before # Default(decl, Root)

\* C6: a successful apply_kv assigns the parsed value to exactly one leaf,
\* the one whose dotted path is the key, and leaves every other leaf as it was.
C6_ScopedMutation ==
    (Applied /\ last.res.kind = "Ok") =>
        /\ last.hit \in LeafPaths(decl, Root)
        /\ ~SkippedOn(decl, Root, last.hit)
        /\ QualKey(decl, Root, last.hit) = last.key
        /\ parse_str(FieldAt(decl, Root, last.hit).ty, last.value).ok
        /\ Get(cfg, last.hit) = parse_str(FieldAt(decl, Root, last.hit).ty, last.value).val
        /\ \A p \in LeafPaths(decl, Root) \ {last.hit} : Get(cfg, p) = Get(last.before, p)

\* A nested leaf was assigned while a sibling and a root leaf held non-default values.
C6_Witness ==
    /\ Applied
    /\ last.res.kind = "Ok"
    /\ Len(last.hit) > 2
    /\ Get(last.before, <<1>>) # Get(Default(decl, Root), <<1>>)
    /\ Get(last.before, <<2, 1>>) # Get(Default(decl, Root), <<2, 1>>)
    /\ Get(cfg, last.hit) # Get(last.before, last.hit)

\* Whether another, non-skipped leaf of T has the name of field i as its key.
RenamedOnto(tt, T, i) ==
    \E j \in 1..Len(tt[T]) :
        /\ j # i
        /\ ~IsSkipped(tt[T][j])
        /\ is_leaf_type(tt[T][j].ty).some
        /\ field_key(tt[T][j]) = tt[T][i].ident

\* Whether a namespace field of T with an empty ns lists a child entry under
\* the bare name of field i.
FlattenedOnto(tt, T, i) ==
    \E j \in 1..Len(tt[T]) :
        /\ ~IsSkipped(tt[T][j])
        /\ ~is_leaf_type(tt[T][j].ty).some
        /\ ns_str(tt[T][j]) = <<>>
        /\ \E k \in 1..Len(options_meta(tt, tt[T][j].ty)) :
               options_meta(tt, tt[T][j].ty)[k].key = tt[T][i].ident

SkippedAt(tt, T) == {i \in 1..Len(tt[T]) : IsSkipped(tt[T][i])}

\* Every leaf under a skipped field holds its default value.
SkippedKeepDefault ==
    \A p \in LeafPaths(decl, Root) :
        SkippedOn(decl, Root, p) => Get(cfg, p) = Get(Default(decl, Root), p)

\* C7 as stated: a field annotated skip has no options_meta() entry under its
\* name, its name as a key yields UnknownKey, and it keeps its default value
\* whatever apply_kv calls are made.
C7_SkipExclusion ==
    /\ \A i \in SkippedAt(decl, Root) :
           last.op = "options_meta" =>
               \A j \in 1..Len(last.meta) : last.meta[j].key # decl[Root][i].ident
    /\ Applied =>
           \A c \in 1..Len(last.calls) : \A i \in SkippedAt(decl, last.calls[c].ty) :
               last.calls[c].key = decl[last.calls[c].ty][i].ident =>
                   /\ last.res.kind = "UnknownKey"
                   /\ last.res.key = last.calls[c].key
    /\ SkippedKeepDefault

\* C7 amended: the same, the name being excluded only as far as no other
\* field of the type produces it (a leaf renamed to it, or an entry an
\* empty-ns namespace lists without prefix).
C7_SkipExclusionUnlessShadowed ==
    /\ \A i \in SkippedAt(decl, Root) :
           (/\ last.op = "options_meta"
            /\ ~RenamedOnto(decl, Root, i)
            /\ ~FlattenedOnto(decl, Root, i)) =>
               \A j \in 1..Len(last.meta) : last.meta[j].key # decl[Root][i].ident
    /\ Applied =>
           \A c \in 1..Len(last.calls) : \A i \in SkippedAt(decl, last.calls[c].ty) :
               (/\ last.calls[c].key = decl[last.calls[c].ty][i].ident
                /\ ~RenamedOnto(decl, last.calls[c].ty, i)) =>
                   /\ last.res.kind = "UnknownKey"
                   /\ last.res.key = last.calls[c].key
    /\ SkippedKeepDefault

\* The name of the skipped root field was tried on a config that earlier
\* calls had changed, and was refused.
C7_Witness ==
    /\ Applied
    /\ \E i \in SkippedAt(decl, Root) :
           last.key = decl[Root][i].ident /\ ~RenamedOnto(decl, Root, i)
    /\ last.res.kind = "UnknownKey"
    /\ last.before # Default(decl, Root)

\* Whether a field declared before field i of T matches key.
EarlierMatched(tt, T, i, key) ==
    \E k \in 1..(i - 1) :
        /\ ~IsSkipped(tt[T][k])
        /\ IF is_leaf_type(tt[T][k].ty).some THEN field_key(tt[T][k]) = key
           ELSE IsPrefix(ns_str(tt[T][k]) \o <<".">>, key)

\* The namespace fields of T that key addresses: key is ns + "." + rest and no
\* earlier field matched it.
Addressed(tt, T, key) ==
    {i \in 1..Len(tt[T]) :
        /\ ~IsSkipped(tt[T][i])
        /\ ~is_leaf_type(tt[T][i].ty).some
        /\ IsPrefix(ns_str(tt[T][i]) \o <<".">>, key)
        /\ ~EarlierMatched(tt, T, i, key)}

RestAfter(f, key) == SubSeq(key, Len(ns_str(f)) + 2, Len(key))

\* C9: at every level, a key ns + "." + rest that no earlier field matched is
\* handed to the namespace field's apply_kv with exactly rest as the key, and
\* what the root returns is what the nested call returns.
C9_NamespaceDelegation ==
    Applied =>
        /\ \A c \in 1..Len(last.calls) :
               \A i \in Addressed(decl, last.calls[c].ty, last.calls[c].key) :
                   /\ c < Len(last.calls)
                   /\ last.calls[c + 1] =
                          [ty |-> decl[last.calls[c].ty][i].ty,
                           key |-> RestAfter(decl[last.calls[c].ty][i], last.calls[c].key),
                           value |-> last.value]
        /\ \A i \in Addressed(decl, Root, last.key) :
               last.res = apply_kv(decl, decl[Root][i].ty, last.before[i],
                                   RestAfter(decl[Root][i], last.key), last.value).res

MetaKeys(tt) == {options_meta(tt, Root)[j].key : j \in 1..Len(options_meta(tt, Root))}

\* C10: the keys options_meta() lists are exactly the keys apply_kv resolves,
\* and applying a listed key with its listed default to the default config
\* succeeds and changes nothing.
C10_MetaAgreesWithApply ==
    Applied =>
        /\ (last.key \in MetaKeys(decl)) <=> (last.res.kind # "UnknownKey")
        /\ \A j \in 1..Len(options_meta(decl, Root)) :
               (/\ last.before = Default(decl, Root)
                /\ options_meta(decl, Root)[j].key = last.key
                /\ options_meta(decl, Root)[j].default = last.value) =>
                   last.res.kind = "Ok" /\ cfg = Default(decl, Root)

----------------------------------------------------------------------------
(* Properties of new_with_options (specification SpecBuild)                *)

Built == built.op = "new_with_options"

HasEq(opt) == \E k \in 1..Len(opt) : opt[k] = "="

FirstEq(opt) == CHOOSE k \in 1..Len(opt) : opt[k] = "=" /\ \A j \in 1..(k - 1) : opt[j] # "="

KeyOf(opt) == SubSeq(opt, 1, FirstEq(opt) - 1)

ValueOf(opt) == SubSeq(opt, FirstEq(opt) + 1, Len(opt))

\* The option applied on its own to the default config.
Alone(opt) == apply_kv(decl, Root, Default(decl, Root), KeyOf(opt), ValueOf(opt))

OptFails(opt) == ~HasEq(opt) \/ Alone(opt).res.kind # "Ok"

OptError(opt) ==
    IF HasEq(opt) THEN Alone(opt).res ELSE ParseError(opt, <<>>, MsgExpected)

AllSucceed == \A i \in 1..Len(built.options) : ~OptFails(built.options[i])

FirstFailing ==
    CHOOSE i \in 1..Len(built.options) :
        /\ OptFails(built.options[i])
        /\ \A j \in 1..(i - 1) : ~OptFails(built.options[j])

Naming(p) == {i \in 1..Len(built.options) : Alone(built.options[i]).hit = p}

MaxOf(S) == CHOOSE i \in S : \A j \in S : j <= i

\* C1: when every option succeeds, the result is the default config with each
\* leaf some option names holding the parsed value of the last option naming
\* it, and every other leaf holding its default.
C1_LastOptionWins ==
    (Built /\ AllSucceed) =>
        /\ built.res.kind = "Ok"
        /\ built.cfg.some
        /\ \A p \in LeafPaths(decl, Root) :
               Get(built.cfg.val, p) =
                   IF Naming(p) = {} THEN Get(Default(decl, Root), p)
                   ELSE parse_str(FieldAt(decl, Root, p).ty,
                                  ValueOf(built.options[MaxOf(Naming(p))])).val

\* Two options named the same leaf with different values and a third named
\* another leaf.
C1_Witness ==
    /\ Built
    /\ AllSucceed
    /\ built.res.kind = "Ok"
    /\ \E i, j, k \in 1..Len(built.options) :
           /\ i < j
           /\ Alone(built.options[i]).hit = Alone(built.options[j]).hit
           /\ ValueOf(built.options[i]) # ValueOf(built.options[j])
           /\ Alone(built.options[k]).hit # Alone(built.options[i]).hit

\* C2: when some option fails, the error is that of the first failing option,
\* no later option is split or applied, and the result is the one the options
\* up to the failing one give.
C2_FailFast ==
    (Built /\ ~AllSucceed) =>
        /\ built.res = OptError(built.options[FirstFailing])
        /\ ~built.cfg.some
        /\ built.split = [i \in 1..FirstFailing |-> i]
        /\ Len(built.applied) <= FirstFailing
        /\ built.res =
               new_with_options(decl, Root, SubSeq(built.options, 1, FirstFailing)).res

\* An option failed after one that succeeded and before one that would have.
C2_Witness ==
    /\ Built
    /\ ~AllSucceed
    /\ FirstFailing > 1
    /\ FirstFailing < Len(built.options)
    /\ ~OptFails(built.options[Len(built.options)])

\* C3: every option handed to apply_kv was split at its first '=' (key before
\* it, value after it), and an option without '=' is not handed to apply_kv
\* and gives ParseError{key: the option, value: "", msg: "expected KEY=VALUE"}.
C3_SplitAtFirstEq ==
    Built =>
        /\ \A j \in 1..Len(built.applied) :
               /\ ~HasEq(built.applied[j].key)
               /\ built.applied[j].key \o <<"=">> \o built.applied[j].value
                      = built.options[j]
        /\ \A j \in 1..Len(built.split) :
               ~HasEq(built.options[built.split[j]]) =>
                   /\ Len(built.applied) = built.split[j] - 1
                   /\ built.res = ParseError(built.options[built.split[j]], <<>>, MsgExpected)

\* A value containing '=' and an empty value were applied, then an option
\* without '=' was refused.
C3_Witness ==
    /\ Built
    /\ \E j \in 1..Len(built.applied) : HasEq(built.applied[j].value)
    /\ \E j \in 1..Len(built.applied) : built.applied[j].value = <<>>
    /\ built.res.kind = "ParseError"
    /\ built.res.msg = MsgExpected

----------------------------------------------------------------------------
(* Properties of format_options_help (specification SpecHelp)              *)

Rendered == help.op # "none"

\* The text cut at the newlines.
RECURSIVE SplitLines(_)
SplitLines(text) ==
    IF \A k \in 1..Len(text) : text[k] # "\n" THEN <<text>>
    ELSE LET k == CHOOSE k \in 1..Len(text) :
                      text[k] = "\n" /\ \A j \in 1..(k - 1) : text[j] # "\n"
         IN <<SubSeq(text, 1, k - 1)>> \o SplitLines(SubSeq(text, k + 1, Len(text)))

NonBlank(text) == SelectSeq(SplitLines(text), LAMBDA l : l # <<>>)

IsHeading(l) == l[Len(l)] = ".*"

HeadingName(l) == SubSeq(l, 1, Len(l) - 1)

Headings(body) == {j \in 1..Len(body) : IsHeading(body[j])}

Entries(body) == {j \in 1..Len(body) : ~IsHeading(body[j])}

\* The heading an entry line stands under.
HeadingOf(body, j) == MaxOf({h \in Headings(body) : h < j})

\* The first dot-separated segment of a key.
FirstSegment(key) ==
    IF \A k \in 1..Len(key) : key[k] # "." THEN key
    ELSE SubSeq(key, 1, (CHOOSE k \in 1..Len(key) :
                             key[k] = "." /\ \A j \in 1..(k - 1) : key[j] # ".") - 1)

Inputs == 1..Len(help.options)

\* The key of the input entry an entry line renders.
KeyOfLine(l) == help.options[CHOOSE k \in Inputs : FormatEntry(help.options[k]) = l].key

\* C8 for the non-blank lines of the text, header first.
GroupedAndSorted(lines) ==
    /\ lines[1] = Header
    /\ \A body \in {Tail(lines)} :
        /\ {HeadingName(body[h]) : h \in Headings(body)}
               = {FirstSegment(help.options[k].key) : k \in Inputs}
        /\ \A g, h \in Headings(body) :
               g < h => StrCmp(HeadingName(body[g]), HeadingName(body[h])) < 0
        /\ \A j \in Entries(body) :
               /\ \E h \in Headings(body) : h < j
               /\ \E k \in Inputs : FormatEntry(help.options[k]) = body[j]
               /\ HeadingName(body[HeadingOf(body, j)]) = FirstSegment(KeyOfLine(body[j]))
        /\ \A k \in Inputs :
               Cardinality({j \in Entries(body) : body[j] = FormatEntry(help.options[k])})
                   = Cardinality({i \in Inputs : help.options[i] = help.options[k]})
        /\ \A j \in Entries(body) :
               (j + 1) \in Entries(body) =>
                   StrCmp(KeyOfLine(body[j]), KeyOfLine(body[j + 1])) <= 0

\* C8: whatever the order of the input, every entry is rendered exactly once,
\* under the heading of its first key segment; every group has one heading;
\* headings ascend by group name and the lines of a group ascend by key.
C8_HelpGroupedAndSorted ==
    Rendered => \A lines \in {NonBlank(help.text)} : GroupedAndSorted(lines)

\* The input listed a later group before an earlier one and, within a group,
\* a later key before an earlier one.
C8_Witness ==
    /\ help.op = "format_options_help"
    /\ \E i, k \in Inputs :
           /\ i < k
           /\ StrCmp(FirstSegment(help.options[i].key),
                     FirstSegment(help.options[k].key)) > 0
    /\ \E i, k \in Inputs :
           /\ i < k
           /\ FirstSegment(help.options[i].key) = FirstSegment(help.options[k].key)
           /\ StrCmp(help.options[i].key, help.options[k].key) > 0

====
